---- MODULE Spec2Model ----
(***************************************************************************)
(* Model of apppermission-analyzer: the permission classifier, the pattern *)
(* aggregator, the analysis engine with its extraction fallback chains,    *)
(* and the comparison command.                                             *)
(*                                                                         *)
(* A Python str is a sequence of one-character strings, so that lower(),   *)
(* `in`, startswith(), split() and strip() are computed, not assumed.      *)
(***************************************************************************)
EXTENDS Integers, Sequences, FiniteSets, TLC

VARIABLES
    pc,           \* "ready", then the name of the operation that has run
    perm_name,    \* classifier: the permission name passed in
    category,     \* classifier: value returned by _categorize_permission
    risk_level,   \* classifier: value returned by _assess_risk
    permissions,  \* aggregator: the permission list passed in
    patterns,     \* aggregator: the dict returned by _identify_patterns
    args,         \* engine: the path arguments of the call / command
    fs,           \* engine: the filesystem, path -> entry
    tool,         \* engine: what `aapt dump <mode> <path>` does, <<mode, path>> -> outcome
    exc,          \* engine: "None" or the name of the exception that escaped
    result,       \* engine: <<>> or <<r>>, r the AnalysisResult returned
    metadata,     \* engine: <<>> or <<m>>, m the AppMetadata returned by a direct extractor call
    extracted,    \* engine: <<>> or <<l>>, l the permission list returned by a direct extractor call
    comparison,   \* compare command: <<>> or <<c>>, c the comparison dict
    calls         \* engine: the extraction sources consulted, in order

vars == <<pc, perm_name, category, risk_level, permissions, patterns, args, fs,
          tool, exc, result, metadata, extracted, comparison, calls>>

-----------------------------------------------------------------------------
(* Bounds of the model.                                                    *)

MaxTokens == 2
MaxPerms == 3
MaxUses == 2
MaxToolLines == 2
MaxCompareLines == 2

-----------------------------------------------------------------------------
(* Python str operations.                                                  *)

UpperChars == <<"A","B","C","D","E","F","G","H","I","J","K","L","M","N","O","P","Q","R","S","T","U","V","W","X","Y","Z">>
LowerChars == <<"a","b","c","d","e","f","g","h","i","j","k","l","m","n","o","p","q","r","s","t","u","v","w","x","y","z">>

LowerChar(c) ==
    IF \E i \in DOMAIN UpperChars : UpperChars[i] = c
    THEN LowerChars[CHOOSE i \in DOMAIN UpperChars : UpperChars[i] = c]
    ELSE c

\* s.lower()
lower(s) == [i \in 1..Len(s) |-> LowerChar(s[i])]

\* sub in s
contains(sub, s) ==
    \E i \in 0..(Len(s) - Len(sub)) : SubSeq(s, i + 1, i + Len(sub)) = sub

\* s.startswith(prefix)
startswith(s, prefix) ==
    Len(s) >= Len(prefix) /\ SubSeq(s, 1, Len(prefix)) = prefix

\* s.find(c) for a one-character c, 1-based; 0 when c is not in s
find(s, c) ==
    IF \E i \in 1..Len(s) : s[i] = c
    THEN CHOOSE i \in 1..Len(s) : s[i] = c /\ \A j \in 1..(i - 1) : s[j] # c
    ELSE 0

\* s.rfind(c) for a one-character c, 1-based; 0 when c is not in s
rfind(s, c) ==
    IF \E i \in 1..Len(s) : s[i] = c
    THEN CHOOSE i \in 1..Len(s) : s[i] = c /\ \A j \in (i + 1)..Len(s) : s[j] # c
    ELSE 0

\* s.split(sep) for a one-character sep: always at least one piece
RECURSIVE split(_, _)
split(s, sep) ==
    LET i == find(s, sep)
    IN  IF i = 0 THEN <<s>>
        ELSE <<SubSeq(s, 1, i - 1)>> \o split(SubSeq(s, i + 1, Len(s)), sep)

Whitespace == {" ", "\t", "\n", "\r"}

RECURSIVE lstrip(_)
lstrip(s) ==
    IF s # <<>> /\ Head(s) \in Whitespace THEN lstrip(Tail(s)) ELSE s

RECURSIVE rstrip(_)
rstrip(s) ==
    IF s # <<>> /\ s[Len(s)] \in Whitespace
    THEN rstrip(SubSeq(s, 1, Len(s) - 1)) ELSE s

\* s.strip()
strip(s) == rstrip(lstrip(s))

\* s.split() with no separator: the maximal runs of non-whitespace
RECURSIVE split_ws(_)
split_ws(s) ==
    LET t == lstrip(s)
        n == IF \E i \in 1..Len(t) : t[i] \in Whitespace
             THEN CHOOSE i \in 1..Len(t) :
                      t[i] \in Whitespace /\ \A j \in 1..(i - 1) : t[j] \notin Whitespace
             ELSE Len(t) + 1
    IN  IF t = <<>> THEN <<>>
        ELSE <<SubSeq(t, 1, n - 1)>> \o split_ws(SubSeq(t, n, Len(t)))

\* sep.join(parts) with every part followed by sep (text made of lines)
RECURSIVE unlines(_)
unlines(ls) ==
    IF ls = <<>> THEN <<>> ELSE Head(ls) \o <<"\n">> \o unlines(Tail(ls))

\* the concatenation of a sequence of strings
RECURSIVE concat(_)
concat(ts) == IF ts = <<>> THEN <<>> ELSE Head(ts) \o concat(Tail(ts))

\* the sequences over S of length at most n
SeqsUpTo(S, n) == UNION {[1..k -> S] : k \in 0..n}

-----------------------------------------------------------------------------
(* Permission classifier (analyzer.py, _categorize_permission and          *)
(* _assess_risk).                                                          *)

\* faulty variant: the Network and Contacts rules have changed places
_categorize_permission_swapped(name) ==
    LET perm_lower == lower(name)
    IN  IF contains(<<"l","o","c","a","t","i","o","n">>, perm_lower) \/ contains(<<"g","p","s">>, perm_lower)
        THEN "Location"
        ELSE IF contains(<<"c","a","m","e","r","a">>, perm_lower)
        THEN "Camera"
        ELSE IF contains(<<"i","n","t","e","r","n","e","t">>, perm_lower) \/ contains(<<"n","e","t","w","o","r","k">>, perm_lower)
        THEN "Network"
        ELSE IF contains(<<"s","t","o","r","a","g","e">>, perm_lower)
                \/ contains(<<"r","e","a","d","_","e","x","t","e","r","n","a","l">>, perm_lower)
                \/ contains(<<"w","r","i","t","e","_","e","x","t","e","r","n","a","l">>, perm_lower)
        THEN "Storage"
        ELSE IF contains(<<"c","o","n","t","a","c","t">>, perm_lower) \/ contains(<<"p","h","o","n","e">>, perm_lower)
        THEN "Contacts"
        ELSE IF contains(<<"s","m","s">>, perm_lower) \/ contains(<<"c","a","l","l">>, perm_lower)
        THEN "Communication"
        ELSE "Other"

_categorize_permission(name) ==
    LET perm_lower == lower(name)
    IN  IF contains(<<"l","o","c","a","t","i","o","n">>, perm_lower) \/ contains(<<"g","p","s">>, perm_lower)
        THEN "Location"
        ELSE IF contains(<<"c","a","m","e","r","a">>, perm_lower)
        THEN "Camera"
        ELSE IF contains(<<"c","o","n","t","a","c","t">>, perm_lower) \/ contains(<<"p","h","o","n","e">>, perm_lower)
        THEN "Contacts"
        ELSE IF contains(<<"s","t","o","r","a","g","e">>, perm_lower)
                \/ contains(<<"r","e","a","d","_","e","x","t","e","r","n","a","l">>, perm_lower)
                \/ contains(<<"w","r","i","t","e","_","e","x","t","e","r","n","a","l">>, perm_lower)
        THEN "Storage"
        ELSE IF contains(<<"i","n","t","e","r","n","e","t">>, perm_lower) \/ contains(<<"n","e","t","w","o","r","k">>, perm_lower)
        THEN "Network"
        ELSE IF contains(<<"s","m","s">>, perm_lower) \/ contains(<<"c","a","l","l">>, perm_lower)
        THEN "Communication"
        ELSE "Other"

high_risk_perms ==
    << <<"l","o","c","a","t","i","o","n">>, <<"c","a","m","e","r","a">>, <<"m","i","c","r","o","p","h","o","n","e">>, <<"c","o","n","t","a","c","t","s">>, <<"s","m","s">>, <<"p","h","o","n","e">>, <<"c","a","l","l">> >>

\* faulty variant: the medium-risk test comes first
_assess_risk_medium_first(name) ==
    LET perm_lower == lower(name)
    IN  IF contains(<<"s","t","o","r","a","g","e">>, perm_lower) \/ contains(<<"i","n","t","e","r","n","e","t">>, perm_lower)
        THEN "medium"
        ELSE IF \E i \in DOMAIN high_risk_perms : contains(high_risk_perms[i], perm_lower)
        THEN "high"
        ELSE "low"

_assess_risk(name) ==
    LET perm_lower == lower(name)
    IN  IF \E i \in DOMAIN high_risk_perms : contains(high_risk_perms[i], perm_lower)
        THEN "high"
        ELSE IF contains(<<"s","t","o","r","a","g","e">>, perm_lower) \/ contains(<<"i","n","t","e","r","n","e","t">>, perm_lower)
        THEN "medium"
        ELSE "low"

\* Permission(name=..., category=..., risk_level=...) as the extractors build it
Permission(name) ==
    [name |-> name,
     category |-> _categorize_permission(name),
     risk_level |-> _assess_risk(name)]

-----------------------------------------------------------------------------
(* Pattern aggregator (analyzer.py, _identify_patterns).                   *)

\* sum(1 for p in permissions if p.risk_level == level)
count_risk(perms, level) ==
    Cardinality({i \in DOMAIN perms : perms[i].risk_level = level})

\* the loop `categories[cat] = categories.get(cat, 0) + 1`; a dict is a function
RECURSIVE count_categories(_, _)
count_categories(perms, categories) ==
    IF perms = <<>> THEN categories
    ELSE LET cat == Head(perms).category
             old == IF cat \in DOMAIN categories THEN categories[cat] ELSE 0
         IN  count_categories(
                 Tail(perms),
                 [c \in DOMAIN categories \cup {cat} |->
                     IF c = cat THEN old + 1 ELSE categories[c]])

EmptyDict == [c \in {} |-> 0]

\* faulty variant: `categories[cat] = 1` instead of incrementing
_identify_patterns_overwrite(perms) ==
    [total_count |-> Len(perms),
     categories |-> [c \in {perms[i].category : i \in DOMAIN perms} |-> 1],
     high_risk_count |-> count_risk(perms, "high")]

_identify_patterns(perms) ==
    [total_count |-> Len(perms),
     categories |-> count_categories(perms, EmptyDict),
     high_risk_count |-> count_risk(perms, "high")]

-----------------------------------------------------------------------------
(* pathlib.Path, for normalised absolute paths.                            *)

\* Path.name
path_name(p) == SubSeq(p, rfind(p, "/") + 1, Len(p))

\* Path.suffix: from the last dot of the name, unless it leads or ends the name
path_suffix(p) ==
    LET name == path_name(p)
        i == rfind(name, ".")
    IN  IF 1 < i /\ i < Len(name) THEN SubSeq(name, i, Len(name)) ELSE <<>>

\* Path.stem
path_stem(p) ==
    LET name == path_name(p)
        i == rfind(name, ".")
    IN  IF 1 < i /\ i < Len(name) THEN SubSeq(name, 1, i - 1) ELSE name

\* Path.parent
path_parent(p) ==
    LET i == rfind(p, "/") IN IF i <= 1 THEN <<"/">> ELSE SubSeq(p, 1, i - 1)

\* path / child
joinpath(p, child) == p \o <<"/">> \o child

\* Path.exists()
path_exists(p) == p \in DOMAIN fs

\* Path.is_dir()
path_is_dir(p) == p \in DOMAIN fs /\ fs[p].is_dir

-----------------------------------------------------------------------------
(* The collaborators: xml.etree.ElementTree and subprocess.run.            *)

\* Element.get(key, default); an attribute is <<>> (absent) or <<value>>
element_get(elem, key, default) ==
    IF elem.attrib[key] = <<>> THEN default ELSE elem.attrib[key][1]

\* root.findall(".//<tag>"), in document order (the model's trees are one level deep)
RECURSIVE findall_in(_, _)
findall_in(children, tag) ==
    IF children = <<>> THEN <<>>
    ELSE (IF Head(children).tag = tag THEN <<Head(children)>> ELSE <<>>)
         \o findall_in(Tail(children), tag)

\* subprocess.run(["aapt", "dump", mode, str(app_path)], ..., timeout=30)
subprocess_run(mode, app_path) == tool[<<mode, app_path>>]

\* what a function call does: return a value or raise, after consulting `log`
Return(v, log) == [exc |-> "None", val |-> <<v>>, log |-> log]
Raise(e, log) == [exc |-> e, val |-> <<>>, log |-> log]

-----------------------------------------------------------------------------
(* Metadata extractor.                                                     *)

unknown == <<"u","n","k","n","o","w","n">>

AppMetadata(package_name, app_name, version, app_category) ==
    [package_name |-> package_name, app_name |-> app_name,
     version |-> version, category |-> app_category]

\* the loop of _parse_aapt_output over output.split("\n"); an index out of
\* range raises IndexError
RECURSIVE parse_aapt_lines(_, _)
parse_aapt_lines(lines, md) ==
    IF lines = <<>> THEN [exc |-> "None", md |-> md]
    ELSE LET line == Head(lines)
         IN  IF startswith(line, <<"p","a","c","k","a","g","e",":"," ","n","a","m","e","=">>)
             THEN LET parts == split(line, "'")
                  IN  IF Len(parts) < 2 THEN [exc |-> "IndexError", md |-> md]
                      ELSE parse_aapt_lines(Tail(lines),
                                            [md EXCEPT !.package_name = parts[2]])
             ELSE IF startswith(line, <<"a","p","p","l","i","c","a","t","i","o","n","-","l","a","b","e","l",":">>)
             THEN parse_aapt_lines(Tail(lines),
                                   [md EXCEPT !.app_name = strip(split(line, ":")[2])])
             ELSE IF startswith(line, <<"v","e","r","s","i","o","n","C","o","d","e","=">>)
             THEN LET words == split_ws(split(line, "=")[2])
                  IN  IF words = <<>> THEN [exc |-> "IndexError", md |-> md]
                      ELSE parse_aapt_lines(Tail(lines), [md EXCEPT !.version = words[1]])
             ELSE parse_aapt_lines(Tail(lines), md)

_parse_aapt_output(output) ==
    parse_aapt_lines(split(output, "\n"), AppMetadata(unknown, unknown, unknown, unknown))

\* faulty variant: no try/except around ET.parse
_parse_manifest_propagating(manifest_path) ==
    LET xml == fs[manifest_path].xml
    IN  IF xml = <<>> THEN [exc |-> "ParseError", md |-> <<>>]
        ELSE LET package_name == element_get(xml[1], "package", unknown)
             IN  [exc |-> "None",
                  md |-> AppMetadata(package_name, package_name, unknown, unknown)]

\* ET.parse raises ParseError on content that is not well-formed (xml = <<>>);
\* `except Exception` turns it into the all-"unknown" record
_parse_manifest(manifest_path) ==
    LET xml == fs[manifest_path].xml
    IN  IF xml = <<>>
        THEN [exc |-> "None", md |-> AppMetadata(unknown, unknown, unknown, unknown)]
        ELSE LET package_name == element_get(xml[1], "package", unknown)
             IN  [exc |-> "None",
                  md |-> AppMetadata(package_name, package_name, unknown, unknown)]

default_metadata(app_path) ==
    AppMetadata(path_stem(app_path), path_stem(app_path), unknown, unknown)

\* faulty variant: the manifest is tried before the badging tool
_extract_android_metadata_manifest_first(app_path) ==
    LET manifest_path == joinpath(app_path, <<"A","n","d","r","o","i","d","M","a","n","i","f","e","s","t",".","x","m","l">>)
        log1 == <<"exists AndroidManifest.xml">>
    IN  IF path_exists(manifest_path)
        THEN Return(_parse_manifest(manifest_path).md,
                    log1 \o <<"parse AndroidManifest.xml">>)
        ELSE LET r == subprocess_run("badging", app_path)
                 log2 == log1 \o <<"aapt dump badging">>
             IN  IF r.raises = "None" /\ r.returncode = 0
                 THEN LET parsed == _parse_aapt_output(r.stdout)
                      IN  IF parsed.exc = "None" THEN Return(parsed.md, log2)
                          ELSE Raise(parsed.exc, log2)
                 ELSE Return(default_metadata(app_path), log2)

_extract_android_metadata(app_path) ==
    LET r == subprocess_run("badging", app_path)
        log1 == <<"aapt dump badging">>
    IN  IF r.raises \notin {"None", "TimeoutExpired", "FileNotFoundError"}
        THEN Raise(r.raises, log1)
        ELSE IF r.raises = "None" /\ r.returncode = 0
        THEN LET parsed == _parse_aapt_output(r.stdout)
             IN  IF parsed.exc = "None" THEN Return(parsed.md, log1)
                 ELSE Raise(parsed.exc, log1)
        ELSE LET manifest_path == joinpath(app_path, <<"A","n","d","r","o","i","d","M","a","n","i","f","e","s","t",".","x","m","l">>)
                 log2 == log1 \o <<"exists AndroidManifest.xml">>
             IN  IF path_exists(manifest_path)
                 THEN LET parsed == _parse_manifest(manifest_path)
                          log3 == log2 \o <<"parse AndroidManifest.xml">>
                      IN  IF parsed.exc = "None" THEN Return(parsed.md, log3)
                          ELSE Raise(parsed.exc, log3)
                 ELSE Return(default_metadata(app_path), log2)

_parse_info_plist(plist_path) ==
    AppMetadata(path_name(path_parent(plist_path)), path_name(path_parent(plist_path)),
                unknown, unknown)

_extract_ios_metadata(app_path) ==
    IF path_is_dir(app_path)
    THEN LET info_plist_path == joinpath(app_path, <<"I","n","f","o",".","p","l","i","s","t">>)
             log == <<"exists Info.plist">>
         IN  IF path_exists(info_plist_path)
             THEN Return(_parse_info_plist(info_plist_path), log)
             ELSE Return(default_metadata(app_path), log)
    ELSE Return(default_metadata(app_path), <<>>)

-----------------------------------------------------------------------------
(* Permission extractor.                                                   *)

AndroidName == "{http://schemas.android.com/apk/res/android}name"

\* the loop over result.stdout.split("\n") of _extract_android_permissions
RECURSIVE tool_permissions(_)
tool_permissions(lines) ==
    IF lines = <<>> THEN <<>>
    ELSE (IF startswith(Head(lines), <<"p","e","r","m","i","s","s","i","o","n",":">>)
          THEN <<Permission(strip(split(Head(lines), ":")[2]))>>
          ELSE <<>>)
         \o tool_permissions(Tail(lines))

\* the loop over root.findall(".//uses-permission")
RECURSIVE manifest_permissions(_)
manifest_permissions(elems) ==
    IF elems = <<>> THEN <<>>
    ELSE (LET name == element_get(Head(elems), AndroidName, <<>>)
          IN  IF name # <<>> THEN <<Permission(name)>> ELSE <<>>)
         \o manifest_permissions(Tail(elems))

\* a variant that reads the manifest only when the tool reported nothing
_extract_android_permissions_fallback_only(app_path) ==
    LET r == subprocess_run("permissions", app_path)
        log1 == <<"aapt dump permissions">>
        from_tool == IF r.raises = "None" /\ r.returncode = 0
                     THEN tool_permissions(split(r.stdout, "\n"))
                     ELSE <<>>
        manifest_path == joinpath(app_path, <<"A","n","d","r","o","i","d","M","a","n","i","f","e","s","t",".","x","m","l">>)
        log2 == log1 \o <<"exists AndroidManifest.xml">>
    IN  IF r.raises \notin {"None", "TimeoutExpired", "FileNotFoundError"}
        THEN Raise(r.raises, log1)
        ELSE IF path_exists(manifest_path)
        THEN LET xml == fs[manifest_path].xml
                 log3 == log2 \o <<"parse AndroidManifest.xml">>
             IN  IF xml = <<>> THEN Raise("ParseError", log3)
                 ELSE IF from_tool # <<>> THEN Return(from_tool, log3)
                 ELSE Return(manifest_permissions(
                                 findall_in(xml[1].children, "uses-permission")),
                             log3)
        ELSE Return(from_tool, log2)

_extract_android_permissions(app_path) ==
    LET r == subprocess_run("permissions", app_path)
        log1 == <<"aapt dump permissions">>
        from_tool == IF r.raises = "None" /\ r.returncode = 0
                     THEN tool_permissions(split(r.stdout, "\n"))
                     ELSE <<>>
        manifest_path == joinpath(app_path, <<"A","n","d","r","o","i","d","M","a","n","i","f","e","s","t",".","x","m","l">>)
        log2 == log1 \o <<"exists AndroidManifest.xml">>
    IN  IF r.raises \notin {"None", "TimeoutExpired", "FileNotFoundError"}
        THEN Raise(r.raises, log1)
        ELSE IF path_exists(manifest_path)
        THEN LET xml == fs[manifest_path].xml
                 log3 == log2 \o <<"parse AndroidManifest.xml">>
             IN  IF xml = <<>> THEN Raise("ParseError", log3)
                 ELSE Return(from_tool \o manifest_permissions(
                                 findall_in(xml[1].children, "uses-permission")),
                             log3)
        ELSE Return(from_tool, log2)

_extract_ios_permissions(app_path) ==
    Return(<<>>, <<"exists Info.plist">>)

_detect_over_permissioning(perms, md) == <<>>

-----------------------------------------------------------------------------
(* Analysis engine.                                                        *)

AnalysisResult(md, platform, perms) ==
    [app_id |-> md.package_name,
     platform |-> platform,
     permissions |-> perms,
     metadata |-> md,
     over_permissions |-> _detect_over_permissioning(perms, md),
     patterns |-> _identify_patterns(perms)]

_analyze_android(app_path) ==
    LET m == _extract_android_metadata(app_path)
    IN  IF m.exc # "None" THEN Raise(m.exc, m.log)
        ELSE LET p == _extract_android_permissions(app_path)
                 log == m.log \o p.log
             IN  IF p.exc # "None" THEN Raise(p.exc, log)
                 ELSE Return(AnalysisResult(m.val[1], "Android", p.val[1]), log)

_analyze_ios(app_path) ==
    LET m == _extract_ios_metadata(app_path)
    IN  IF m.exc # "None" THEN Raise(m.exc, m.log)
        ELSE LET p == _extract_ios_permissions(app_path)
                 log == m.log \o p.log
             IN  IF p.exc # "None" THEN Raise(p.exc, log)
                 ELSE Return(AnalysisResult(m.val[1], "iOS", p.val[1]), log)

\* faulty variant: the platform is detected before the existence check
analyze_detect_first(app_path) ==
    IF path_suffix(app_path) = <<".","a","p","k">>
       \/ (path_is_dir(app_path) /\ contains(<<"A","n","d","r","o","i","d","M","a","n","i","f","e","s","t",".","x","m","l">>, app_path))
    THEN _analyze_android(app_path)
    ELSE IF path_suffix(app_path) = <<".","i","p","a">>
            \/ (path_is_dir(app_path) /\ contains(<<"I","n","f","o",".","p","l","i","s","t">>, app_path))
    THEN _analyze_ios(app_path)
    ELSE IF ~path_exists(app_path) THEN Raise("FileNotFoundError", <<>>)
    ELSE Raise("ValueError", <<>>)

analyze(app_path) ==
    IF ~path_exists(app_path) THEN Raise("FileNotFoundError", <<>>)
    ELSE IF path_suffix(app_path) = <<".","a","p","k">>
            \/ (path_is_dir(app_path) /\ contains(<<"A","n","d","r","o","i","d","M","a","n","i","f","e","s","t",".","x","m","l">>, app_path))
    THEN _analyze_android(app_path)
    ELSE IF path_suffix(app_path) = <<".","i","p","a">>
            \/ (path_is_dir(app_path) /\ contains(<<"I","n","f","o",".","p","l","i","s","t">>, app_path))
    THEN _analyze_ios(app_path)
    ELSE Raise("ValueError", <<>>)

-----------------------------------------------------------------------------
(* Compare command (cli.py, main).                                         *)

\* {p.name for p in result.permissions}
permission_names(r) == {r.permissions[i].name : i \in DOMAIN r.permissions}

\* faulty variant: only_in_app2 repeats the difference of only_in_app1
compare_copy_paste(result1, result2, app1, app2) ==
    LET perms1 == permission_names(result1)
        perms2 == permission_names(result2)
    IN  [app1 |-> app1, app2 |-> app2,
         common_permissions |-> perms1 \cap perms2,
         only_in_app1 |-> perms1 \ perms2,
         only_in_app2 |-> perms1 \ perms2]

\* the comparison dict; list(set) has no defined order, so the lists are sets
compare(result1, result2, app1, app2) ==
    LET perms1 == permission_names(result1)
        perms2 == permission_names(result2)
    IN  [app1 |-> app1, app2 |-> app2,
         common_permissions |-> perms1 \cap perms2,
         only_in_app1 |-> perms1 \ perms2,
         only_in_app2 |-> perms2 \ perms1]

\* the compare branch of main, given the outcomes r1 and r2 of analyze(app1) and
\* analyze(app2); an exception of the first analysis ends the command before the
\* second one runs, and an exception of either leaves no comparison
compare_outcomes(r1, r2, app1, app2) ==
    IF r1.exc # "None" THEN Raise(r1.exc, r1.log)
    ELSE IF r2.exc # "None" THEN Raise(r2.exc, r1.log \o r2.log)
    ELSE Return(compare(r1.val[1], r2.val[1], app1, app2), r1.log \o r2.log)

compare_command(first, second) ==
    compare_outcomes(analyze(first), analyze(second), first, second)

-----------------------------------------------------------------------------
(* Inputs: permission names, permission lists, filesystems, tool outcomes. *)

Tokens ==
    { <<"l","o","c","a","t","i","o","n">>, <<"g","p","s">>, <<"c","a","m","e","r","a">>, <<"c","o","n","t","a","c","t">>, <<"p","h","o","n","e">>, <<"s","t","o","r","a","g","e">>,
      <<"r","e","a","d","_","e","x","t","e","r","n","a","l">>, <<"w","r","i","t","e","_","e","x","t","e","r","n","a","l">>, <<"i","n","t","e","r","n","e","t">>, <<"n","e","t","w","o","r","k">>, <<"s","m","s">>,
      <<"c","a","l","l">>, <<"m","i","c","r","o">>, <<"s">>, <<"m","s">>, <<"_">>, <<"L","O","C","A","T","I","O","N">>, <<"V","I","B","R","A","T","E">>,
      <<"a","n","d","r","o","i","d",".","p","e","r","m","i","s","s","i","o","n",".">> }

PermissionNames == {concat(ts) : ts \in SeqsUpTo(Tokens, MaxTokens)}

PermissionPool ==
    { Permission(<<"C","A","M","E","R","A">>), Permission(<<"I","N","T","E","R","N","E","T">>), Permission(<<"V","I","B","R","A","T","E">>),
      Permission(<<"R","E","A","D","_","S","M","S">>),
      [name |-> <<"c","u","s","t","o","m">>, category |-> "Camera", risk_level |-> "low"] }

PermissionLists == SeqsUpTo(PermissionPool, MaxPerms)

Root == <<"/">>
Paths ==
    { <<"/","a","p","p",".","a","p","k">>, <<"/","a","p","p",".","i","p","a">>, <<"/","a","p","p",".","x","y","z">>, <<"/","a","p","p">>, <<"/",".","a","p","k">>,
      <<"/","A","n","d","r","o","i","d","M","a","n","i","f","e","s","t",".","x","m","l">>, <<"/","I","n","f","o",".","p","l","i","s","t">> }

Directory == [is_dir |-> TRUE, xml |-> <<>>]
File == [is_dir |-> FALSE, xml |-> <<>>]
XmlFile(xml) == [is_dir |-> FALSE, xml |-> xml]

Attrib(package, name) == [a \in {"package", AndroidName} |->
                             IF a = "package" THEN package ELSE name]
Element(tag, attrib, children) == [tag |-> tag, attrib |-> attrib, children |-> children]

UsesPool ==
    { Element("uses-permission", Attrib(<<>>, << <<"C","A","M","E","R","A">> >>), <<>>),
      Element("uses-permission", Attrib(<<>>, << <<"R","E","A","D","_","S","M","S">> >>), <<>>),
      Element("uses-permission", Attrib(<<>>, <<>>), <<>>),
      Element("application", Attrib(<<>>, << <<"A","p","p">> >>), <<>>) }

\* the content of an AndroidManifest.xml: <<>> when it is not well-formed XML,
\* else <<root>>
Manifests ==
    {<<>>} \cup
    { <<Element("manifest", Attrib(package, <<>>), children)>> :
        package \in {<<>>, << <<>> >>, << <<"c","o","m",".","a">> >>},
        children \in SeqsUpTo(UsesPool, MaxUses) }

Filesystems(p) ==
    { Root :> Directory,
      (Root :> Directory) @@ (p :> File),
      (Root :> Directory) @@ (p :> Directory),
      (Root :> Directory) @@ (p :> Directory) @@ (joinpath(p, <<"I","n","f","o",".","p","l","i","s","t">>) :> File) }
    \cup
    { (Root :> Directory) @@ (p :> Directory)
        @@ (joinpath(p, <<"A","n","d","r","o","i","d","M","a","n","i","f","e","s","t",".","x","m","l">>) :> XmlFile(m)) : m \in Manifests }

\* outcomes of subprocess.run: the executable is missing, the call times out,
\* or it completes with a return code and its standard output
Absent == [raises |-> "FileNotFoundError", returncode |-> 1, stdout |-> <<>>]
TimedOut == [raises |-> "TimeoutExpired", returncode |-> 1, stdout |-> <<>>]
Completed(returncode, stdout) ==
    [raises |-> "None", returncode |-> returncode, stdout |-> stdout]

BadgingOutputs ==
    { <<>>,
      <<"p","a","c","k","a","g","e",":"," ","n","a","m","e","=","'","c","o","m",".","a","'"," ","v","e","r","s","i","o","n","C","o","d","e","=","'","1","'","\n","a","p","p","l","i","c","a","t","i","o","n","-","l","a","b","e","l",":","'","A","p","p","'","\n">>,
      <<"v","e","r","s","i","o","n","C","o","d","e","=","7"," ","x","\n","a","p","p","l","i","c","a","t","i","o","n","-","l","a","b","e","l",":"," ","A","p","p"," ","\n">>,
      <<"s","d","k","V","e","r","s","i","o","n",":","'","2","1","'","\n">>,
      <<"p","a","c","k","a","g","e",":"," ","n","a","m","e","=","'","'","\n">>,
      <<"p","a","c","k","a","g","e",":"," ","n","a","m","e","=","\n">> }

PermissionLines == { <<"p","e","r","m","i","s","s","i","o","n",":"," ","C","A","M","E","R","A">>, <<"p","e","r","m","i","s","s","i","o","n",":">>, <<"u","s","e","s","-","f","e","a","t","u","r","e",":"," ","x">> }

BadgingOutcomes ==
    {TimedOut, Completed(1, <<>>)} \cup {Completed(0, out) : out \in BadgingOutputs}

PermissionOutcomes ==
    {TimedOut, Completed(1, <<>>)}
    \cup {Completed(0, unlines(ls)) : ls \in SeqsUpTo(PermissionLines, MaxToolLines)}

\* the tool cannot dump a package that is not there
FailedOutcomes == {TimedOut, Completed(1, <<>>)}

Tools(p, present) ==
    { (<<"badging", p>> :> Absent) @@ (<<"permissions", p>> :> Absent) }
    \cup
    { (<<"badging", p>> :> b) @@ (<<"permissions", p>> :> q) :
        b \in IF present THEN BadgingOutcomes ELSE FailedOutcomes,
        q \in IF present THEN PermissionOutcomes ELSE FailedOutcomes }

\* the compare command's inputs: two packages, the second possibly missing, the
\* first possibly an extracted directory whose manifest repeats a tool permission
App1 == <<"/","a",".","a","p","k">>
App2 == <<"/","b",".","a","p","k">>

CompareLines == { <<"p","e","r","m","i","s","s","i","o","n",":"," ","C","A","M","E","R","A">>, <<"p","e","r","m","i","s","s","i","o","n",":"," ","I","N","T","E","R","N","E","T">>, <<"p","e","r","m","i","s","s","i","o","n",":"," ","V","I","B","R","A","T","E">> }

\* /a.apk is a package file, or an extracted directory with a manifest
App1Entries ==
    { App1 :> File,
      (App1 :> Directory)
        @@ (joinpath(App1, <<"A","n","d","r","o","i","d","M","a","n","i","f","e","s","t",".","x","m","l">>) :>
               XmlFile(<<Element("manifest", Attrib(<< <<"c","o","m",".","a">> >>, <<>>),
                                 <<Element("uses-permission",
                                           Attrib(<<>>, << <<"C","A","M","E","R","A">> >>), <<>>)>>)>>)) }

\* /b.apk is a package file, or does not exist
App2Entries == { App2 :> File, Root :> Directory }

CompareFilesystems ==
    { (Root :> Directory) @@ e1 @@ e2 : e1 \in App1Entries, e2 \in App2Entries }

CompareOutcomes ==
    {Completed(0, unlines(ls)) : ls \in SeqsUpTo(CompareLines, MaxCompareLines)}

CompareTools(present2) ==
    { (<<"badging", App1>> :> Absent) @@ (<<"badging", App2>> :> Absent)
        @@ (<<"permissions", App1>> :> q1) @@ (<<"permissions", App2>> :> q2) :
        q1 \in CompareOutcomes,
        q2 \in IF present2 THEN CompareOutcomes ELSE {Completed(1, <<>>)} }

-----------------------------------------------------------------------------
(* Specifications: the inputs are drawn by the initial predicate and each  *)
(* action is one call of an operation.                                     *)

\* Analyzer()._categorize_permission(perm_name) and ._assess_risk(perm_name)
Classify ==
    /\ pc = "ready"
    /\ pc' = "classify"
    /\ category' = _categorize_permission(perm_name)
    /\ risk_level' = _assess_risk(perm_name)
    /\ UNCHANGED <<extracted, perm_name, permissions, patterns, args, fs, tool, exc, result,
                   metadata, comparison, calls>>

InitClassify ==
    /\ pc = "ready"
    /\ perm_name \in PermissionNames
    /\ category = "" /\ risk_level = ""
    /\ permissions = <<>> /\ patterns = <<>>
    /\ args = <<>> /\ fs = (Root :> Directory) /\ tool = <<>>
    /\ exc = "None" /\ result = <<>> /\ metadata = <<>>
    /\ extracted = <<>> /\ comparison = <<>> /\ calls = <<>>

SpecClassify == InitClassify /\ [][Classify]_vars

\* Analyzer()._identify_patterns(permissions)
Aggregate ==
    /\ pc = "ready"
    /\ pc' = "aggregate"
    /\ patterns' = <<_identify_patterns(permissions)>>
    /\ UNCHANGED <<extracted, perm_name, category, risk_level, permissions, args, fs, tool, exc,
                   result, metadata, comparison, calls>>

InitAggregate ==
    /\ pc = "ready"
    /\ permissions \in PermissionLists
    /\ perm_name = <<>> /\ category = "" /\ risk_level = ""
    /\ patterns = <<>>
    /\ args = <<>> /\ fs = (Root :> Directory) /\ tool = <<>>
    /\ exc = "None" /\ result = <<>> /\ metadata = <<>>
    /\ extracted = <<>> /\ comparison = <<>> /\ calls = <<>>

SpecAggregate == InitAggregate /\ [][Aggregate]_vars

\* the compare command on args = <<app1, app2>>
Compare ==
    /\ pc = "ready"
    /\ pc' = "compare"
    /\ \E r1 \in {analyze(args[1])}, r2 \in {analyze(args[2])} :
          \E c \in {compare_outcomes(r1, r2, args[1], args[2])} :
             /\ exc' = c.exc
             /\ comparison' = c.val
             /\ calls' = c.log
    /\ UNCHANGED <<extracted, perm_name, category, risk_level, permissions, patterns, args, fs,
                   tool, result, metadata>>

InitCompare ==
    /\ pc = "ready"
    /\ args = <<App1, App2>>
    /\ fs \in CompareFilesystems
    /\ tool \in CompareTools(App2 \in DOMAIN fs)
    /\ perm_name = <<>> /\ category = "" /\ risk_level = ""
    /\ permissions = <<>> /\ patterns = <<>>
    /\ exc = "None" /\ result = <<>> /\ metadata = <<>>
    /\ extracted = <<>> /\ comparison = <<>> /\ calls = <<>>

SpecCompare == InitCompare /\ [][Compare]_vars

\* Analyzer().analyze(args[1])
Analyze ==
    /\ pc = "ready"
    /\ pc' = "analyze"
    /\ \E r \in {analyze(args[1])} :
          /\ exc' = r.exc
          /\ result' = r.val
          /\ calls' = r.log
    /\ UNCHANGED <<extracted, perm_name, category, risk_level, permissions, patterns, args, fs,
                   tool, metadata, comparison>>

\* Analyzer()._extract_android_metadata(Path(args[1]))
ExtractAndroidMetadata ==
    /\ pc = "ready"
    /\ pc' = "android_metadata"
    /\ \E r \in {_extract_android_metadata(args[1])} :
          /\ exc' = r.exc
          /\ metadata' = r.val
          /\ calls' = r.log
    /\ UNCHANGED <<extracted, perm_name, category, risk_level, permissions, patterns, args, fs,
                   tool, result, comparison>>

\* Analyzer()._extract_ios_metadata(Path(args[1]))
ExtractIosMetadata ==
    /\ pc = "ready"
    /\ pc' = "ios_metadata"
    /\ \E r \in {_extract_ios_metadata(args[1])} :
          /\ exc' = r.exc
          /\ metadata' = r.val
          /\ calls' = r.log
    /\ UNCHANGED <<extracted, perm_name, category, risk_level, permissions, patterns, args, fs,
                   tool, result, comparison>>

\* Analyzer()._extract_android_permissions(Path(args[1]))
ExtractAndroidPermissions ==
    /\ pc = "ready"
    /\ pc' = "android_permissions"
    /\ \E r \in {_extract_android_permissions(args[1])} :
          /\ exc' = r.exc
          /\ extracted' = r.val
          /\ calls' = r.log
    /\ UNCHANGED <<perm_name, category, risk_level, permissions, patterns, args, fs,
                   tool, result, metadata, comparison>>

Init ==
    /\ pc = "ready"
    /\ \E p \in Paths :
          /\ args = <<p>>
          /\ fs \in Filesystems(p)
          /\ tool \in Tools(p, p \in DOMAIN fs)
    /\ perm_name = <<>> /\ category = "" /\ risk_level = ""
    /\ permissions = <<>> /\ patterns = <<>>
    /\ exc = "None" /\ result = <<>> /\ metadata = <<>>
    /\ extracted = <<>> /\ comparison = <<>> /\ calls = <<>>

Next ==
    \/ Analyze
    \/ ExtractAndroidMetadata
    \/ ExtractIosMetadata
    \/ ExtractAndroidPermissions

Spec == Init /\ [][Next]_vars

-----------------------------------------------------------------------------
(* Properties.                                                             *)

Categories ==
    {"Location", "Camera", "Contacts", "Storage", "Network", "Communication", "Other"}

\* the classification rules as an ordered list of (category, keywords)
CategoryRules ==
    << [category |-> "Location", keywords |-> { <<"l","o","c","a","t","i","o","n">>, <<"g","p","s">> }],
       [category |-> "Camera", keywords |-> { <<"c","a","m","e","r","a">> }],
       [category |-> "Contacts", keywords |-> { <<"c","o","n","t","a","c","t">>, <<"p","h","o","n","e">> }],
       [category |-> "Storage",
        keywords |-> { <<"s","t","o","r","a","g","e">>, <<"r","e","a","d","_","e","x","t","e","r","n","a","l">>, <<"w","r","i","t","e","_","e","x","t","e","r","n","a","l">> }],
       [category |-> "Network", keywords |-> { <<"i","n","t","e","r","n","e","t">>, <<"n","e","t","w","o","r","k">> }],
       [category |-> "Communication", keywords |-> { <<"s","m","s">>, <<"c","a","l","l">> }] >>

RuleMatches(i, name) ==
    \E kw \in CategoryRules[i].keywords : contains(kw, lower(name))

FirstMatchCategory(name) ==
    IF \E i \in DOMAIN CategoryRules : RuleMatches(i, name)
    THEN CategoryRules[CHOOSE i \in DOMAIN CategoryRules :
                           /\ RuleMatches(i, name)
                           /\ \A j \in 1..(i - 1) : ~RuleMatches(j, name)].category
    ELSE "Other"

\* C1: categorize returns, for every name (the empty one included), the category
\* of the first rule in the fixed order Location, Camera, Contacts, Storage,
\* Network, Communication one of whose keywords is a substring of the lower-cased
\* name, else Other; a name matching several rules gets the earliest one, and
\* the result is always one of the seven categories.
C1_CategorizeFirstMatch ==
    pc = "classify" =>
        /\ category = FirstMatchCategory(perm_name)
        /\ category \in Categories
        /\ (perm_name = <<>> => category = "Other")
        /\ (contains(<<"p","h","o","n","e">>, perm_name) /\ contains(<<"i","n","t","e","r","n","e","t">>, perm_name)
               => /\ category # "Network"
                  /\ (~RuleMatches(1, perm_name) /\ ~RuleMatches(2, perm_name))
                         => category = "Contacts")
        /\ (contains(<<"L","O","C","A","T","I","O","N">>, perm_name) /\ contains(<<"i","n","t","e","r","n","e","t">>, perm_name)
               => category = "Location")

C1_Witness ==
    /\ pc = "classify"
    /\ perm_name = <<"p","h","o","n","e","i","n","t","e","r","n","e","t">>
    /\ category = "Contacts"

HighRiskKeywords ==
    { <<"l","o","c","a","t","i","o","n">>, <<"c","a","m","e","r","a">>, <<"m","i","c","r","o","p","h","o","n","e">>, <<"c","o","n","t","a","c","t","s">>, <<"s","m","s">>, <<"p","h","o","n","e">>, <<"c","a","l","l">> }
MediumRiskKeywords == { <<"s","t","o","r","a","g","e">>, <<"i","n","t","e","r","n","e","t">> }

\* C2: assessRisk is high when the lower-cased name contains a high-risk keyword,
\* else medium when it contains storage or internet, else low; a name with both
\* a high and a medium keyword is high, and the result is one of low/medium/high.
C2_AssessRiskHighFirst ==
    pc = "classify" =>
        /\ risk_level \in {"low", "medium", "high"}
        /\ risk_level = "high"
               <=> \E kw \in HighRiskKeywords : contains(kw, lower(perm_name))
        /\ risk_level = "medium"
               <=> /\ \A kw \in HighRiskKeywords : ~contains(kw, lower(perm_name))
                   /\ \E kw \in MediumRiskKeywords : contains(kw, lower(perm_name))

C2_Witness ==
    /\ pc = "classify"
    /\ perm_name = <<"s","t","o","r","a","g","e","l","o","c","a","t","i","o","n">>
    /\ risk_level = "high"

RECURSIVE SumOver(_, _)
SumOver(f, S) ==
    IF S = {} THEN 0
    ELSE LET x == CHOOSE x \in S : TRUE IN f[x] + SumOver(f, S \ {x})

\* C3: for any permission list P, total_count = len(P), the category counts sum
\* to total_count, each category's count is the number of permissions of P with
\* that category (no category with count 0 appears), and high_risk_count is the
\* number of permissions of P whose risk_level is "high".
C3_AggregateCounts ==
    pc = "aggregate" =>
        LET p == patterns[1]
            P == permissions
        IN  /\ p.total_count = Len(P)
            /\ SumOver(p.categories, DOMAIN p.categories) = p.total_count
            /\ DOMAIN p.categories = {P[i].category : i \in DOMAIN P}
            /\ \A c \in DOMAIN p.categories :
                   /\ p.categories[c] = Cardinality({i \in DOMAIN P : P[i].category = c})
                   /\ p.categories[c] > 0
            /\ p.high_risk_count =
                   Cardinality({i \in DOMAIN P : P[i].risk_level = "high"})

C3_Witness ==
    /\ pc = "aggregate"
    /\ Len(permissions) = 3
    /\ permissions[1] = permissions[3]
    /\ permissions[1].category # permissions[2].category
    /\ patterns[1].categories[permissions[1].category] = 2
    /\ patterns[1].high_risk_count = 2

\* a permission list without the later occurrences of a repeated name
RECURSIVE Dedup(_, _)
Dedup(perms, seen) ==
    IF perms = <<>> THEN <<>>
    ELSE (IF Head(perms).name \in seen THEN <<>> ELSE <<Head(perms)>>)
         \o Dedup(Tail(perms), seen \cup {Head(perms).name})

HasDuplicates(perms) ==
    \E i, j \in DOMAIN perms : i # j /\ perms[i].name = perms[j].name

\* C4: compare yields common, only_in_A, only_in_B with common \cup only_in_A the
\* name set of A, common and only_in_A disjoint (likewise for B), only_in_A and
\* only_in_B disjoint; compare(B, A) has the same common and the two only-sets
\* swapped; duplicates in either sequence do not change the result.
C4_CompareSetAlgebra ==
    (pc = "compare" /\ comparison # <<>>) =>
        LET c == comparison[1]
            A == analyze(args[1]).val[1]
            B == analyze(args[2]).val[1]
            namesA == {A.permissions[i].name : i \in DOMAIN A.permissions}
            namesB == {B.permissions[i].name : i \in DOMAIN B.permissions}
            swapped == compare_command(args[2], args[1]).val[1]
            deduped == compare([A EXCEPT !.permissions = Dedup(A.permissions, {})],
                               [B EXCEPT !.permissions = Dedup(B.permissions, {})],
                               args[1], args[2])
        IN  /\ c.common_permissions \cup c.only_in_app1 = namesA
            /\ c.common_permissions \cup c.only_in_app2 = namesB
            /\ c.common_permissions \cap c.only_in_app1 = {}
            /\ c.common_permissions \cap c.only_in_app2 = {}
            /\ c.only_in_app1 \cap c.only_in_app2 = {}
            /\ swapped.common_permissions = c.common_permissions
            /\ swapped.only_in_app1 = c.only_in_app2
            /\ swapped.only_in_app2 = c.only_in_app1
            /\ deduped = c

C4_Witness ==
    /\ pc = "compare"
    /\ comparison # <<>>
    /\ HasDuplicates(analyze(args[1]).val[1].permissions)
    /\ comparison[1].common_permissions # {}
    /\ comparison[1].only_in_app1 # {}
    /\ comparison[1].only_in_app2 # {}

\* s.endswith(suffix)
endswith(s, suffix) ==
    Len(s) >= Len(suffix) /\ SubSeq(s, Len(s) - Len(suffix) + 1, Len(s)) = suffix

\* the path names a package file with this extension
HasExtension(p, ext) == endswith(p, ext) /\ Len(path_name(p)) > Len(ext)

\* the directory shape the platform detection recognises
RecognisedDirectory(p) ==
    /\ fs[p].is_dir
    /\ contains(<<"A","n","d","r","o","i","d","M","a","n","i","f","e","s","t",".","x","m","l">>, p) \/ contains(<<"I","n","f","o",".","p","l","i","s","t">>, p)

Supported(p) ==
    HasExtension(p, <<".","a","p","k">>) \/ HasExtension(p, <<".","i","p","a">>) \/ RecognisedDirectory(p)

\* C5: analyze fails with NotFound (FileNotFoundError) for a path that does not
\* exist, whatever its suffix, and with UnsupportedFormat (ValueError) for an
\* existing path that is neither a .apk/.ipa package nor a recognised directory;
\* in both cases no extraction source is consulted and no result is returned.
C5_ValidateBeforeExtraction ==
    pc = "analyze" =>
        /\ args[1] \notin DOMAIN fs
               => exc = "FileNotFoundError" /\ calls = <<>> /\ result = <<>>
        /\ (args[1] \in DOMAIN fs /\ ~Supported(args[1]))
               => exc = "ValueError" /\ calls = <<>> /\ result = <<>>

C5_Witness ==
    /\ pc = "analyze"
    /\ args[1] = <<"/","a","p","p",".","a","p","k">>
    /\ args[1] \notin DOMAIN fs
    /\ exc = "FileNotFoundError"
    /\ calls = <<>>

\* C6: analyze either returns a complete result or fails with NotFound or
\* UnsupportedFormat; for an existing, supported input no failure of an
\* extraction source is surfaced to the caller.
C6_NoSourceFailureSurfaced ==
    pc = "analyze" =>
        /\ \/ exc = "None" /\ result # <<>>
           \/ exc \in {"FileNotFoundError", "ValueError"} /\ result = <<>>
        /\ (args[1] \in DOMAIN fs /\ Supported(args[1])) => exc = "None"

ManifestPath == joinpath(args[1], <<"A","n","d","r","o","i","d","M","a","n","i","f","e","s","t",".","x","m","l">>)
PlistPath == joinpath(args[1], <<"I","n","f","o",".","p","l","i","s","t">>)
Badging == tool[<<"badging", args[1]>>]
BadgingSucceeded == Badging.raises = "None" /\ Badging.returncode = 0
BadgingAbsentOrTimedOut == Badging.raises \in {"FileNotFoundError", "TimeoutExpired"}

IsPrefix(s, t) == Len(s) <= Len(t) /\ SubSeq(t, 1, Len(s)) = s

\* C7: Android extractMetadata consults badging tool, then AndroidManifest.xml,
\* then the default, each at most once; a tool exit of 0 returns the parsed
\* output without consulting the manifest; with the tool absent or timed out and
\* a manifest present, package_name is the root's package attribute; with no
\* source available the record is (stem, stem, "unknown", "unknown").
C7_MetadataFallbackOrder ==
    pc = "android_metadata" =>
        /\ calls # <<>>
        /\ IsPrefix(calls, <<"aapt dump badging", "exists AndroidManifest.xml",
                             "parse AndroidManifest.xml">>)
        /\ BadgingSucceeded =>
               /\ calls = <<"aapt dump badging">>
               /\ exc = _parse_aapt_output(Badging.stdout).exc
               /\ exc = "None" => metadata = <<_parse_aapt_output(Badging.stdout).md>>
        /\ (/\ BadgingAbsentOrTimedOut
            /\ ManifestPath \in DOMAIN fs
            /\ fs[ManifestPath].xml # <<>>
            /\ fs[ManifestPath].xml[1].attrib["package"] # <<>>) =>
               /\ exc = "None"
               /\ metadata[1].package_name = fs[ManifestPath].xml[1].attrib["package"][1]
        /\ (~BadgingSucceeded /\ ManifestPath \notin DOMAIN fs) =>
               /\ exc = "None"
               /\ metadata[1].package_name = path_stem(args[1])
               /\ metadata[1].app_name = path_stem(args[1])
               /\ metadata[1].version = <<"u","n","k","n","o","w","n">>
               /\ metadata[1].category = <<"u","n","k","n","o","w","n">>

C7_Witness ==
    /\ pc = "android_metadata"
    /\ args[1] = <<"/","a","p","p">>
    /\ Badging.raises = "FileNotFoundError"
    /\ ManifestPath \in DOMAIN fs
    /\ metadata # <<>>
    /\ metadata[1].package_name = <<"c","o","m",".","a">>
    /\ calls = <<"aapt dump badging", "exists AndroidManifest.xml",
                 "parse AndroidManifest.xml">>

\* a source names the package: the tool's output has a package line, the
\* manifest's root has a package attribute, or an Info.plist is present
AndroidSourceYieldsName ==
    \/ /\ BadgingSucceeded
       /\ \E i \in DOMAIN split(Badging.stdout, "\n") :
              startswith(split(Badging.stdout, "\n")[i], <<"p","a","c","k","a","g","e",":"," ","n","a","m","e","=">>)
    \/ /\ ~BadgingSucceeded
       /\ ManifestPath \in DOMAIN fs
       /\ fs[ManifestPath].xml # <<>>
       /\ fs[ManifestPath].xml[1].attrib["package"] # <<>>

IosSourceYieldsName == PlistPath \in DOMAIN fs

\* C8: every AppMetadata the metadata extractors return (Android and iOS, through
\* any branch of the fallback chain), and hence every AnalysisResult.app_id, has a
\* non-empty package_name.
C8_PackageNameNeverEmpty ==
    /\ (pc \in {"android_metadata", "ios_metadata"} /\ metadata # <<>>) =>
           metadata[1].package_name # <<>>
    /\ (pc = "analyze" /\ result # <<>>) => result[1].app_id # <<>>

\* C8, second half: when no source yields a package name, package_name is the
\* stem of the input path.
C8_FallbackIsPathStem ==
    /\ (pc = "android_metadata" /\ metadata # <<>> /\ ~AndroidSourceYieldsName) =>
           metadata[1].package_name = path_stem(args[1])
    /\ (pc = "ios_metadata" /\ metadata # <<>> /\ ~IosSourceYieldsName) =>
           metadata[1].package_name = path_stem(args[1])

\* C9: an existing directory that contains an AndroidManifest.xml file is
\* analysed as Android, one that contains an Info.plist file as iOS, instead of
\* failing with UnsupportedFormat.
C9_ExtractedDirectoryAccepted ==
    (pc = "analyze" /\ args[1] \in DOMAIN fs /\ fs[args[1]].is_dir) =>
        /\ ManifestPath \in DOMAIN fs =>
               /\ exc # "ValueError"
               /\ result # <<>> => result[1].platform = "Android"
        /\ PlistPath \in DOMAIN fs =>
               /\ exc # "ValueError"
               /\ result # <<>> => result[1].platform = "iOS"

\* the manifest is reached by the metadata extractor and is not well-formed XML
MalformedManifestReached ==
    /\ pc = "android_metadata"
    /\ ~BadgingSucceeded
    /\ ManifestPath \in DOMAIN fs
    /\ fs[ManifestPath].xml = <<>>

-----------------------------------------------------------------------------
(* Android permission extraction.                                          *)

DumpPermissions == tool[<<"permissions", args[1]>>]
DumpSucceeded == DumpPermissions.raises = "None" /\ DumpPermissions.returncode = 0

\* the dump's lines that begin with "permission:", in output order
PermissionDumpLines ==
    IF DumpSucceeded
    THEN SelectSeq(split(DumpPermissions.stdout, "\n"),
                   LAMBDA l : IsPrefix(<<"p","e","r","m","i","s","s","i","o","n",":">>, l))
    ELSE <<>>

\* the identifier of such a line: the text after "permission:" up to the next
\* colon, if any, without surrounding whitespace
LineIdentifier(l) ==
    LET rest == SubSeq(l, Len(<<"p","e","r","m","i","s","s","i","o","n",":">>) + 1, Len(l))
        colons == {i \in 1..Len(rest) : rest[i] = ":"}
        stop == IF colons = {} THEN Len(rest)
                ELSE (CHOOSE i \in colons : \A j \in colons : i <= j) - 1
    IN  strip(SubSeq(rest, 1, stop))

\* the manifest's uses-permission elements that carry a name, in document order
NamedUsesPermissions ==
    IF ManifestPath \in DOMAIN fs /\ fs[ManifestPath].xml # <<>>
    THEN SelectSeq(fs[ManifestPath].xml[1].children,
                   LAMBDA e : /\ e.tag = "uses-permission"
                              /\ e.attrib[AndroidName] \notin {<<>>, << <<>> >>})
    ELSE <<>>

\* `perms` is the permissions of `lines` followed by those of `uses`, each
\* classified, with nothing dropped or merged
IsCumulative(perms, lines, uses) ==
    \A expected \in {[i \in 1..Len(lines) |-> LineIdentifier(lines[i])]
                     \o [i \in 1..Len(uses) |-> uses[i].attrib[AndroidName][1]]} :
        /\ Len(perms) = Len(lines) + Len(uses)
        /\ [i \in 1..Len(perms) |-> perms[i].name] = expected
        /\ \A i \in 1..Len(perms) :
              /\ perms[i].category = _categorize_permission(perms[i].name)
              /\ perms[i].risk_level = _assess_risk(perms[i].name)
        /\ \A i \in 1..Len(lines), j \in 1..Len(uses) :
              expected[i] = expected[Len(lines) + j] =>
                  /\ perms[i].name = perms[Len(lines) + j].name
                  /\ Cardinality({k \in 1..Len(perms) : perms[k].name = perms[i].name}) >= 2

C12_PermissionNamesNonEmpty ==
    /\ (pc = "android_permissions" /\ extracted # <<>>) =>
          \A i \in 1..Len(extracted[1]) : extracted[1][i].name # <<>>
    /\ (pc = "analyze" /\ result # <<>>) =>
          \A i \in 1..Len(result[1].permissions) : result[1].permissions[i].name # <<>>
====
